---- MODULE Spec2Model ----
(***************************************************************************)
(* A model of vea-feeder (src/main.py): one run of the script, from        *)
(* loading config.json, through vea's loop over the configured feeds       *)
(* (fetch_feed: parse, normalise every entry, filter on the keywords),     *)
(* the deduplication by link, to export_data and the exit code.            *)
(*                                                                         *)
(* Python values are records [t, v]: t is the type tag, v the characters   *)
(* of a str (a sequence of one-character strings) or the fields of a time  *)
(* tuple (a sequence of integers).                                         *)
(***************************************************************************)
EXTENDS Integers, Sequences, FiniteSets, TLC

\* ------------------------------------------------------------------ bounds

\* Feeds in config.json's "feeds" object.
MaxFeeds == 2
\* Entries of one parsed feed.
MaxEntries == 2
\* Entries over all the feeds of one configuration.
MaxTotalEntries == 3
\* Characters of a title in the filter cases.
MaxTitleLen == 2
\* Characters of a keyword in the filter cases.
MaxKeywordLen == 2
\* Keywords in config.json's "keywords" array in the filter cases.
MaxKeywords == 2
\* A summary has up to SummaryLimit + MaxOverflow characters.
MaxOverflow == 2

\* processed_summary[:200]
SummaryLimit == 200
\* entry.published_parsed[:6]
TimeFields == 6

\* ------------------------------------------------------- Python values

None == [t |-> "None", v |-> <<>>]

Str(s) == [t |-> "str", v |-> s]

\* A number: truthy, neither a str nor a dict, with no .lower() and no slice.
Num == [t |-> "num", v |-> <<>>]

\* {'type': 'text/html', 'value': s}
DictValue(s) == [t |-> "dict", v |-> s]

\* {'type': ..., 'value': 5}: a dict whose 'value' is not text.
DictNumValue == [t |-> "dict_num", v |-> <<>>]

\* A dict with no 'value' key.
DictNoValue == [t |-> "dict_novalue", v |-> <<>>]

\* time.struct_time as feedparser's *_parsed fields hold it.
TimeTuple(tt) == [t |-> "tuple", v |-> tt]

\* Python's truth value: `if x:`.
Truthy(x) ==
    CASE x.t = "None" -> FALSE
      [] x.t = "str" -> x.v # <<>>
      [] x.t = "tuple" -> x.v # <<>>
      [] OTHER -> TRUE

IsStr(x) == x.t = "str"

IsDict(x) == x.t \in {"dict", "dict_num", "dict_novalue"}

\* 'value' in raw_summary
HasValueKey(x) == x.t \in {"dict", "dict_num"}

\* raw_summary['value']
DictGetValue(x) == IF x.t = "dict" THEN Str(x.v) ELSE Num

Min(a, b) == IF a < b THEN a ELSE b

\* ----------------------------------------------------------- exceptions

\* The base class of each exception class the run can meet.
ExcParent(c) ==
    CASE c = "FileNotFoundError" -> "OSError"
      [] c = "PermissionError" -> "OSError"
      [] c = "URLError" -> "OSError"
      [] c = "OSError" -> "Exception"
      [] c = "JSONDecodeError" -> "ValueError"
      [] c = "UnicodeDecodeError" -> "ValueError"
      [] c = "ValueError" -> "Exception"
      [] c = "TypeError" -> "Exception"
      [] c = "AttributeError" -> "Exception"
      [] OTHER -> "BaseException"

RECURSIVE IsSubclass(_, _)
IsSubclass(c, base) ==
    IF c = base THEN TRUE
    ELSE IF c = "BaseException" THEN FALSE
    ELSE IsSubclass(ExcParent(c), base)

\* An except clause naming the classes of `handler` catches `exc`.
Caught(handler, exc) == \E h \in handler : IsSubclass(exc, h)

\* except (FileNotFoundError, json.JSONDecodeError) in __main__
MainHandler == {"FileNotFoundError", "JSONDecodeError"}

FetchFeedHandlerNarrow == {"ValueError"}

\* except Exception around the whole of fetch_feed's work
FetchFeedHandler == {"Exception"}

PublishedHandlerNone == {}

\* except Exception around the date conversion
PublishedHandler == {"Exception"}

\* except IOError around the open/json.dump of export_data (IOError is OSError)
ExportHandler == {"OSError"}

\* ---------------------------------------------------------------- strings

\* str.lower() on one character of the alphabet the model draws titles from.
LowerChar(c) ==
    CASE c = "A" -> "a"
      [] c = "B" -> "b"
      [] OTHER -> c

\* title.lower()
LowerStr(s) == [i \in 1..Len(s) |-> LowerChar(s[i])]

\* Python's `k in s` for two strs: k occurs in s as a contiguous run.
IsSubstring(k, s) ==
    \E i \in 0..(Len(s) - Len(k)) : SubSeq(s, i + 1, i + Len(k)) = k

RECURSIVE AllKeywordIn(_, _)
AllKeywordIn(kws, title_lower) ==
    IF kws = <<>> THEN "true"
    ELSE IF ~IsStr(Head(kws)) THEN "TypeError"
    ELSE IF ~IsSubstring(Head(kws).v, title_lower) THEN "false"
    ELSE AllKeywordIn(Tail(kws), title_lower)

\* any(keyword in title_lower for keyword in keywords), evaluated left to right:
\* it stops at the first keyword found, and `5 in title_lower` raises TypeError.
RECURSIVE AnyKeywordIn(_, _)
AnyKeywordIn(kws, title_lower) ==
    IF kws = <<>> THEN "false"
    ELSE IF ~IsStr(Head(kws)) THEN "TypeError"
    ELSE IF IsSubstring(Head(kws).v, title_lower) THEN "true"
    ELSE AnyKeywordIn(Tail(kws), title_lower)

\* The filter of fetch_feed: "true", "false" or the exception class raised.
KeywordMatch(kws, title_lower) == AnyKeywordIn(kws, title_lower)

\* ---------------------------------------------------------------- summary

SliceLast(s) == SubSeq(s, Len(s) - Min(Len(s), SummaryLimit) + 1, Len(s))

\* processed_summary[:200]
Slice(s) == SubSeq(s, 1, Min(Len(s), SummaryLimit))

\* The summary handling of fetch_feed: [exc, val], exc the exception class raised
\* ("none" when none is) and val the processed_summary.
ProcessSummary(raw_summary) ==
    LET picked == IF IsDict(raw_summary) /\ HasValueKey(raw_summary)
                      THEN DictGetValue(raw_summary)
                  ELSE IF IsStr(raw_summary) THEN raw_summary
                  ELSE None
    IN  IF ~Truthy(raw_summary) THEN [exc |-> "none", val |-> None]
        ELSE IF ~Truthy(picked) THEN [exc |-> "none", val |-> None]
        ELSE IF IsStr(picked) THEN [exc |-> "none", val |-> Str(Slice(picked.v))]
        ELSE [exc |-> "TypeError", val |-> None]

\* ------------------------------------------------------------- published

Digits == <<"0", "1", "2", "3", "4", "5", "6", "7", "8", "9">>

DigitChar(n) == Digits[n + 1]

Pad2(n) == <<DigitChar(n \div 10), DigitChar(n % 10)>>

Pad4(n) == Pad2(n \div 100) \o Pad2(n % 100)

IsLeap(y) == (y % 4 = 0 /\ y % 100 # 0) \/ y % 400 = 0

DaysInMonth(y, m) ==
    IF m = 2 THEN (IF IsLeap(y) THEN 29 ELSE 28)
    ELSE IF m \in {4, 6, 9, 11} THEN 30
    ELSE 31

\* The i-th positional argument of datetime(...), 0 when it is not given.
TimeArg(args, i) == IF i <= Len(args) THEN args[i] ELSE 0

\* datetime(*args).isoformat(): [exc, val]. datetime needs year, month and day
\* (TypeError) and checks every field's range (ValueError).
DatetimeIso(args) ==
    LET y == TimeArg(args, 1)
        m == TimeArg(args, 2)
        d == TimeArg(args, 3)
        h == TimeArg(args, 4)
        mi == TimeArg(args, 5)
        s == TimeArg(args, 6)
    IN  IF Len(args) < 3 THEN [exc |-> "TypeError", val |-> None]
        ELSE IF ~(/\ y \in 1..9999
                  /\ m \in 1..12
                  /\ d \in 1..DaysInMonth(y, m)
                  /\ h \in 0..23
                  /\ mi \in 0..59
                  /\ s \in 0..59)
            THEN [exc |-> "ValueError", val |-> None]
        ELSE [exc |-> "none",
              val |-> Str(Pad4(y) \o <<"-">> \o Pad2(m) \o <<"-">> \o Pad2(d)
                          \o <<"T">> \o Pad2(h) \o <<":">> \o Pad2(mi)
                          \o <<":">> \o Pad2(s))]

\* The date handling of fetch_feed: [exc, val, warn], val the published_iso, warn
\* whether the warning is logged, exc an exception its except clause let through.
ConvertPublished(entry) ==
    LET pp == entry.published_parsed
        r == IF pp.t = "tuple"
                 THEN DatetimeIso(SubSeq(pp.v, 1, Min(Len(pp.v), TimeFields)))
             ELSE [exc |-> "TypeError", val |-> None]
    IN  IF ~Truthy(entry.published) THEN [exc |-> "none", val |-> None, warn |-> FALSE]
        ELSE IF ~Truthy(pp) THEN [exc |-> "none", val |-> None, warn |-> FALSE]
        ELSE IF r.exc = "none" THEN [exc |-> "none", val |-> r.val, warn |-> FALSE]
        ELSE IF Caught(PublishedHandler, r.exc)
            THEN [exc |-> "none", val |-> None, warn |-> TRUE]
        ELSE [exc |-> r.exc, val |-> None, warn |-> FALSE]

\* ------------------------------------------------------------ one entry

\* The dict fetch_feed appends for a matched entry.
MatchedEntry(feed_name, entry, processed_summary, published_iso) ==
    [source |-> feed_name,
     title |-> entry.title,
     summary |-> processed_summary,
     link |-> entry.link,
     published |-> published_iso]

NoEntry == [source |-> "", title |-> None, summary |-> None, link |-> None,
            published |-> None]

\* One pass of fetch_feed's loop body over `entry`: kind is "raise" (exc is the
\* exception class), "skip" (title or link missing), "nomatch" or "match" (entry
\* is the dict appended); warn: the date warning was logged.
EntryOutcome(feed_name, entry, kws) ==
    LET s == ProcessSummary(entry.summary)
        p == ConvertPublished(entry)
        m == KeywordMatch(kws, LowerStr(entry.title.v))
        out(kind, exc, e, warn) ==
            [kind |-> kind, exc |-> exc, entry |-> e, warn |-> warn]
    IN  IF s.exc # "none" THEN out("raise", s.exc, NoEntry, FALSE)
        ELSE IF ~Truthy(entry.title) \/ ~Truthy(entry.link)
            THEN out("skip", "none", NoEntry, FALSE)
        ELSE IF ~IsStr(entry.title) THEN out("raise", "AttributeError", NoEntry, FALSE)
        ELSE IF p.exc # "none" THEN out("raise", p.exc, NoEntry, FALSE)
        ELSE IF m = "TypeError" THEN out("raise", "TypeError", NoEntry, p.warn)
        ELSE IF m = "true"
            THEN out("match", "none",
                     MatchedEntry(feed_name, entry, s.val, p.val), p.warn)
        ELSE out("nomatch", "none", NoEntry, p.warn)

\* ------------------------------------------------------------------ state

VARIABLES
    configFile,             \* what load_config finds at config.json
    keywords,               \* config['keywords']
    feeds,                  \* config['feeds'], each with what feedparser.parse returns for it
    pc,                     \* where the run is
    fi,                     \* vea: the position in feed_dictionary.items()
    ei,                     \* fetch_feed: the position in feed.entries
    matched_entries_list,   \* fetch_feed
    matchedIdx,             \* for each dict of matched_entries_list, the position of its raw entry
    current_feed_entries,   \* vea
    di,                     \* vea: the position in current_feed_entries
    all_matched_entries,    \* vea
    seen_links,             \* vea
    result,                 \* __main__: what vea returned
    exportOutcome,          \* export_data: "none", "written", "write_failed", "makedirs_failed"
    exitCode,               \* the process's exit status, NoExit while it runs
    log,                    \* the logging.warning/error/critical calls made, and the last logging.info
    calls,                  \* the feed names fetch_feed was called with, in order
    returned,               \* what each call of fetch_feed returned and how it ended
    veaCalls,               \* calls of vea
    exportCalls             \* calls of export_data

inputs == <<configFile, keywords, feeds>>

fetchVars == <<ei, matched_entries_list, matchedIdx>>

veaVars == <<fi, current_feed_entries, di, all_matched_entries, seen_links>>

mainVars == <<result, exportOutcome, exitCode, veaCalls, exportCalls>>

vars == <<configFile, keywords, feeds, pc, fi, ei, matched_entries_list, matchedIdx,
          current_feed_entries, di, all_matched_entries, seen_links, result,
          exportOutcome, exitCode, log, calls, returned, veaCalls, exportCalls>>

\* No exit status yet: the process is running.
NoExit == 0 - 1

LogRecord(level, fn) == [level |-> level, fn |-> fn]

\* ----------------------------------------------------------------- inputs

\* A raw entry of a parsed feed, as entry.get / hasattr see it (None: absent).
RawEntry(title, link, summary, published, published_parsed) ==
    [title |-> title, link |-> link, summary |-> summary,
     published |-> published, published_parsed |-> published_parsed]

PlainEntry(title, link) == RawEntry(title, link, None, None, None)

\* What feedparser.parse does for one feed: parse is "raise" (the call raises),
\* "noentries" (the result has no usable entries list) or "ok".
ParsedFeed(parse, bozo, entries) == [parse |-> parse, bozo |-> bozo, entries |-> entries]

FeedNames == <<"A", "B", "C", "D">>

SeqsUpTo(S, n) == UNION {[1..k -> S] : k \in 0..n}

\* config['feeds'] in iteration order: the i-th feed is named FeedNames[i].
Named(fs) ==
    [i \in 1..Len(fs) |->
        [name |-> FeedNames[i], parse |-> fs[i].parse, bozo |-> fs[i].bozo,
         entries |-> fs[i].entries]]

LinkX == Str(<<"x">>)

LinkY == Str(<<"y">>)

\* The aggregation cases: titles that match, do not match or make .lower() fail,
\* over two links.
AggEntries ==
    {PlainEntry(Str(<<"a">>), LinkX), PlainEntry(Str(<<"a">>), LinkY),
     PlainEntry(Str(<<"A">>), LinkX), PlainEntry(Str(<<"b">>), LinkX),
     PlainEntry(Num, LinkY)}

ParseOutcomes == {"raise", "noentries", "ok"}

RECURSIVE SumTo(_, _)
SumTo(ns, i) == IF i = 0 THEN 0 ELSE ns[i] + SumTo(ns, i - 1)

\* The configuration of Len(ns) feeds, the i-th parsing as parses[i] into ns[i]
\* entries, taken in order from the flat list es.
AggConfig(ns, parses, es) ==
    Named([i \in 1..Len(ns) |->
              ParsedFeed(parses[i], FALSE,
                         SubSeq(es, SumTo(ns, i - 1) + 1, SumTo(ns, i)))])

\* feeds is a configuration of at most MaxFeeds feeds, each of at most MaxEntries
\* entries of AggEntries and at most MaxTotalEntries in all; a feed whose parse
\* fails has no entries.
AggInit ==
    \E k \in 0..Min(MaxFeeds, Len(FeedNames)) :
        \E ns \in [1..k -> 0..MaxEntries], parses \in [1..k -> ParseOutcomes] :
            /\ SumTo(ns, k) <= MaxTotalEntries
            /\ \A i \in 1..k : parses[i] # "ok" => ns[i] = 0
            /\ \E es \in [1..SumTo(ns, k) -> AggEntries] :
                   feeds = AggConfig(ns, parses, es)

\* The filter cases: one entry, titles and keywords in every letter case.
FilterTitles ==
    {Str(s) : s \in SeqsUpTo({"a", "A", "b"}, MaxTitleLen)} \cup {None, Num}

FilterKeywords ==
    {Str(s) : s \in SeqsUpTo({"a", "A"}, MaxKeywordLen)} \cup {Num}

ShortKeywords == {Str(<<>>), Str(<<"a">>), Str(<<"A">>), Str(<<"b">>), Num}

\* One keyword of any length, or several short ones.
FilterKeywordLists ==
    {<<k>> : k \in FilterKeywords} \cup SeqsUpTo(ShortKeywords, MaxKeywords)

FilterConfigs ==
    {Named(<<ParsedFeed("ok", FALSE, <<PlainEntry(t, LinkX)>>)>>) : t \in FilterTitles}

\* The summary cases: every shape of summary, texts around the limit, and a
\* second entry with or without a link.
SummaryChars == <<"a", "b", "c">>

SummaryText(n) == [i \in 1..n |-> SummaryChars[(i % 3) + 1]]

SummaryLens == {0, 1} \cup ((SummaryLimit - 1)..(SummaryLimit + MaxOverflow))

Summaries ==
    {None, Num, DictNoValue, DictNumValue}
    \cup {Str(SummaryText(n)) : n \in SummaryLens}
    \cup {DictValue(SummaryText(n)) : n \in SummaryLens}

SummaryConfigs ==
    {Named(<<ParsedFeed("ok", b,
                        <<RawEntry(Str(<<"a">>), LinkX, s, None, None),
                          PlainEntry(Str(<<"a">>), l)>>)>>) :
        s \in Summaries, b \in BOOLEAN, l \in {LinkY, None, Str(<<>>)}}

\* The date cases: a first entry with every published / published_parsed, valid
\* and invalid, and a second entry after it.
TimeTuples ==
    {TimeTuple(<<y, m, d, h, mi, s, 0, 1, 0>>) :
        y \in {2023, 2024}, m \in {0, 2, 11, 13}, d \in {0, 1, 29, 31},
        h \in {7, 24}, mi \in {5, 60}, s \in {9, 60}}

PublishedParsed == {None, Num, TimeTuple(<<2024, 1>>), TimeTuple(<<2024, 2, 29>>)}
                   \cup TimeTuples

PublishedConfigs ==
    {Named(<<ParsedFeed("ok", FALSE,
                        <<RawEntry(Str(<<"a">>), LinkX, None, p, pp),
                          PlainEntry(Str(<<"a">>), LinkY)>>)>>) :
        p \in {None, Str(<<>>), Str(<<"d">>)}, pp \in PublishedParsed}

ConfigFiles == {"ok", "missing", "malformed", "unreadable", "undecodable"}

\* The state after the logging set-up of __main__, before load_config.
Init ==
    /\ \/ /\ configFile \in ConfigFiles \ {"ok"}
          /\ feeds = <<>>
          /\ keywords = <<>>
       \/ /\ configFile = "ok"
          /\ \/ AggInit /\ keywords = <<Str(<<"a">>)>>
             \/ feeds \in FilterConfigs /\ keywords \in FilterKeywordLists
             \/ feeds \in SummaryConfigs /\ keywords = <<Str(<<"a">>)>>
             \/ feeds \in PublishedConfigs /\ keywords = <<Str(<<"a">>)>>
    /\ pc = "start"
    /\ fi = 1
    /\ ei = 1
    /\ matched_entries_list = <<>>
    /\ matchedIdx = <<>>
    /\ current_feed_entries = <<>>
    /\ di = 1
    /\ all_matched_entries = <<>>
    /\ seen_links = {}
    /\ result = <<>>
    /\ exportOutcome = "none"
    /\ exitCode = NoExit
    /\ log = <<>>
    /\ calls = <<>>
    /\ returned = <<>>
    /\ veaCalls = 0
    /\ exportCalls = 0

\* ---------------------------------------------------------------- actions

\* The exception load_config raises for what it finds at config.json.
ConfigException(file) ==
    CASE file = "missing" -> "FileNotFoundError"
      [] file = "malformed" -> "JSONDecodeError"
      [] file = "unreadable" -> "PermissionError"
      [] file = "undecodable" -> "UnicodeDecodeError"
      [] OTHER -> "none"

\* An exception no except clause caught reaches the top level: the interpreter
\* prints the traceback and the process exits with status 1.
Uncaught ==
    /\ pc' = "exited"
    /\ exitCode' = 1

\* return from fetch_feed into vea's loop over current_feed_entries.
FetchFeedReturns(list, how) ==
    /\ current_feed_entries' = list
    /\ returned' = Append(returned, [entries |-> list, error |-> how])
    /\ di' = 1
    /\ pc' = "dedup"

\* __main__: load_config and the except clause around it. The log level the
\* configuration sets decides only which records reach vea.log: log holds the
\* logging calls made, so it is left out.
LoadConfig ==
    /\ pc = "start"
    /\ LET exc == ConfigException(configFile)
       IN  IF exc = "none"
               THEN /\ pc' = "vea"
                    /\ UNCHANGED <<log, exitCode>>
           ELSE IF Caught(MainHandler, exc)
               THEN /\ log' = log \o <<LogRecord("ERROR", "load_config"),
                                       LogRecord("CRITICAL", "main")>>
                    /\ exitCode' = 1
                    /\ pc' = "exited"
           ELSE /\ log' = Append(log, LogRecord("ERROR", "load_config"))
                /\ Uncaught
    /\ UNCHANGED <<inputs, fetchVars, veaVars, result, exportOutcome, calls,
                   returned, veaCalls, exportCalls>>

\* vea is called: its two locals are set up.
VeaStart ==
    /\ pc = "vea"
    /\ veaCalls' = veaCalls + 1
    /\ all_matched_entries' = <<>>
    /\ seen_links' = {}
    /\ fi' = 1
    /\ pc' = "loop"
    /\ UNCHANGED <<inputs, fetchVars, current_feed_entries, di, result,
                   exportOutcome, exitCode, log, calls, returned, exportCalls>>

\* vea calls fetch_feed for the next feed: the parse and the checks before the loop.
FetchFeedCall ==
    /\ pc = "loop"
    /\ fi <= Len(feeds)
    /\ calls' = Append(calls, feeds[fi].name)
    /\ matched_entries_list' = <<>>
    /\ matchedIdx' = <<>>
    /\ ei' = 1
    /\ LET feed == feeds[fi]
           bozoLog == IF feed.bozo THEN <<LogRecord("WARNING", "fetch_feed")>> ELSE <<>>
       IN  CASE feed.parse = "raise" ->
                    IF Caught(FetchFeedHandler, "URLError")
                        THEN /\ log' = Append(log, LogRecord("ERROR", "fetch_feed"))
                             /\ FetchFeedReturns(<<>>, "parse")
                             /\ UNCHANGED exitCode
                    ELSE /\ Uncaught
                         /\ UNCHANGED <<log, current_feed_entries, returned, di>>
             [] feed.parse = "noentries" ->
                    /\ log' = log \o bozoLog \o <<LogRecord("WARNING", "fetch_feed")>>
                    /\ FetchFeedReturns(<<>>, "noentries")
                    /\ UNCHANGED exitCode
             [] OTHER ->
                    /\ log' = log \o bozoLog
                    /\ pc' = "entries"
                    /\ UNCHANGED <<current_feed_entries, returned, di, exitCode>>
    /\ UNCHANGED <<inputs, fi, all_matched_entries, seen_links, result,
                   exportOutcome, veaCalls, exportCalls>>

\* The entry fetch_feed's loop is at, and what its body does with it.
CurrentOutcome ==
    EntryOutcome(feeds[fi].name, feeds[fi].entries[ei], keywords)

AtEntry ==
    /\ pc = "entries"
    /\ ei <= Len(feeds[fi].entries)

DateWarning(o) == IF o.warn THEN <<LogRecord("WARNING", "fetch_feed")>> ELSE <<>>

\* fetch_feed: the body raises; the except clause logs and the function returns
\* matched_entries_list as it stands.
ProcessEntryRaise ==
    /\ AtEntry
    /\ CurrentOutcome.kind = "raise"
    /\ IF Caught(FetchFeedHandler, CurrentOutcome.exc)
           THEN /\ log' = log \o DateWarning(CurrentOutcome)
                              \o <<LogRecord("ERROR", "fetch_feed")>>
                /\ FetchFeedReturns(matched_entries_list, "entry")
                /\ UNCHANGED exitCode
       ELSE /\ Uncaught
            /\ UNCHANGED <<log, current_feed_entries, returned, di>>
    /\ UNCHANGED <<inputs, fetchVars, fi, all_matched_entries, seen_links, result,
                   exportOutcome, calls, veaCalls, exportCalls>>

\* fetch_feed: an entry with no title or no link is skipped.
ProcessEntrySkip ==
    /\ AtEntry
    /\ CurrentOutcome.kind = "skip"
    /\ ei' = ei + 1
    /\ UNCHANGED <<inputs, pc, matched_entries_list, matchedIdx, veaVars, mainVars,
                   log, calls, returned>>

\* fetch_feed: no keyword is in the title.
ProcessEntryNoMatch ==
    /\ AtEntry
    /\ CurrentOutcome.kind = "nomatch"
    /\ ei' = ei + 1
    /\ log' = log \o DateWarning(CurrentOutcome)
    /\ UNCHANGED <<inputs, pc, matched_entries_list, matchedIdx, veaVars, mainVars,
                   calls, returned>>

\* fetch_feed: a keyword is in the title, the entry's dict is appended.
ProcessEntryMatch ==
    /\ AtEntry
    /\ CurrentOutcome.kind = "match"
    /\ matched_entries_list' = Append(matched_entries_list, CurrentOutcome.entry)
    /\ matchedIdx' = Append(matchedIdx, ei)
    /\ ei' = ei + 1
    /\ log' = log \o DateWarning(CurrentOutcome)
    /\ UNCHANGED <<inputs, pc, veaVars, mainVars, calls, returned>>

\* fetch_feed: the loop is over, return matched_entries_list.
FetchFeedDone ==
    /\ pc = "entries"
    /\ ei > Len(feeds[fi].entries)
    /\ FetchFeedReturns(matched_entries_list, "none")
    /\ UNCHANGED <<inputs, fetchVars, fi, all_matched_entries, seen_links, mainVars,
                   log, calls>>

IsNewLinkAlways(link, seen) == TRUE

\* entry['link'] not in seen_links
IsNewLink(link, seen) == link \notin seen

AddLast(list, entry) == <<entry>> \o list

\* all_matched_entries.append(entry)
AddEntry(list, entry) == Append(list, entry)

AtDedup ==
    /\ pc = "dedup"
    /\ di <= Len(current_feed_entries)

\* vea: an entry with a new link is appended and its link remembered.
AppendEntry ==
    /\ AtDedup
    /\ IsNewLink(current_feed_entries[di].link, seen_links)
    /\ all_matched_entries' = AddEntry(all_matched_entries, current_feed_entries[di])
    /\ seen_links' = seen_links \cup {current_feed_entries[di].link}
    /\ di' = di + 1
    /\ UNCHANGED <<inputs, pc, fetchVars, fi, current_feed_entries, mainVars, log,
                   calls, returned>>

\* vea: an entry whose link was seen is dropped.
SkipDuplicate ==
    /\ AtDedup
    /\ ~IsNewLink(current_feed_entries[di].link, seen_links)
    /\ di' = di + 1
    /\ UNCHANGED <<inputs, pc, fetchVars, fi, current_feed_entries,
                   all_matched_entries, seen_links, mainVars, log, calls, returned>>

\* vea: on to the next feed.
NextFeed ==
    /\ pc = "dedup"
    /\ di > Len(current_feed_entries)
    /\ fi' = fi + 1
    /\ pc' = "loop"
    /\ UNCHANGED <<inputs, fetchVars, current_feed_entries, di, all_matched_entries,
                   seen_links, mainVars, log, calls, returned>>

\* vea returns all_matched_entries to __main__.
VeaReturn ==
    /\ pc = "loop"
    /\ fi > Len(feeds)
    /\ result' = all_matched_entries
    /\ pc' = "export"
    /\ UNCHANGED <<inputs, fetchVars, veaVars, exportOutcome, exitCode, log, calls,
                   returned, veaCalls, exportCalls>>

\* export_data(result, output_directory): the directory may exist or not, and
\* os.makedirs and the open/json.dump may each fail with an OSError. os.makedirs
\* runs before the try statement.
ExportData ==
    /\ pc = "export"
    /\ exportCalls' = exportCalls + 1
    /\ \E dirExists \in BOOLEAN, makedirsFails \in BOOLEAN, writeFails \in BOOLEAN :
          IF ~dirExists /\ makedirsFails
              THEN /\ exportOutcome' = "makedirs_failed"
                   /\ Uncaught
                   /\ UNCHANGED log
          ELSE IF writeFails
              THEN /\ exportOutcome' = "write_failed"
                   /\ IF Caught(ExportHandler, "PermissionError")
                          THEN /\ log' = Append(log, LogRecord("ERROR", "export_data"))
                               /\ pc' = "finish"
                               /\ UNCHANGED exitCode
                      ELSE /\ Uncaught
                           /\ UNCHANGED log
          ELSE /\ exportOutcome' = "written"
               /\ pc' = "finish"
               /\ UNCHANGED <<log, exitCode>>
    /\ UNCHANGED <<inputs, fetchVars, veaVars, result, calls, returned, veaCalls>>

\* __main__: the last log lines; the script ends and the process exits with 0.
Finish ==
    /\ pc = "finish"
    /\ log' = Append(log, LogRecord("INFO", "main"))
    /\ exitCode' = 0
    /\ pc' = "exited"
    /\ UNCHANGED <<inputs, fetchVars, veaVars, result, exportOutcome, calls,
                   returned, veaCalls, exportCalls>>

Next ==
    \/ LoadConfig
    \/ VeaStart
    \/ FetchFeedCall
    \/ ProcessEntryRaise
    \/ ProcessEntrySkip
    \/ ProcessEntryNoMatch
    \/ ProcessEntryMatch
    \/ FetchFeedDone
    \/ AppendEntry
    \/ SkipDuplicate
    \/ NextFeed
    \/ VeaReturn
    \/ ExportData
    \/ Finish

Spec == Init /\ [][Next]_vars

\* ----------------------------------------------------------------- claims

\* vea has returned to __main__.
VeaReturned == pc \in {"export", "finish"} \/ (pc = "exited" /\ exportCalls = 1)

\* fetch_feed is running for, or has just returned for, feeds[fi]:
\* matched_entries_list and matchedIdx are those of that feed.
InFeed == pc \in {"entries", "dedup"}

FeedOrder == [i \in 1..Len(feeds) |-> feeds[i].name]

LinksOf(list) == {list[i].link : i \in 1..Len(list)}

DistinctLinks(list) ==
    \A i, j \in 1..Len(list) : i # j => list[i].link # list[j].link

RECURSIVE Flatten(_)
Flatten(lists) ==
    IF lists = <<>> THEN <<>> ELSE Head(lists).entries \o Flatten(Tail(lists))

\* `list` without every element whose link occurs earlier in it.
RECURSIVE FirstByLink(_)
FirstByLink(list) ==
    IF list = <<>> THEN <<>>
    ELSE LET front == SubSeq(list, 1, Len(list) - 1)
             last == list[Len(list)]
         IN  IF last.link \in LinksOf(front) THEN FirstByLink(front)
             ELSE Append(FirstByLink(front), last)

\* Two characters are the same letter, whatever their case.
SameLetter(c, d) == c = d \/ {c, d} = {"a", "A"} \/ {c, d} = {"b", "B"}

\* kw occurs in title, ignoring letter case.
ContainsIgnoringCase(title, kw) ==
    \E off \in 0..(Len(title) - Len(kw)) :
        \A j \in 1..Len(kw) : SameLetter(title[off + j], kw[j])

\* Some configured keyword occurs in the title t, ignoring letter case.
TitleHasKeyword(t) ==
    \E i \in 1..Len(keywords) :
        /\ keywords[i].t = "str"
        /\ ContainsIgnoringCase(t.v, keywords[i].v)

\* The raw entry has a title (a str) and a link.
HasTitleAndLink(raw) == raw.title.t = "str" /\ Truthy(raw.title) /\ Truthy(raw.link)

\* The raw entry the k-th dict of matched_entries_list was made from.
RawOf(k) == feeds[fi].entries[matchedIdx[k]]

CountLog(level, fn) ==
    Cardinality({i \in 1..Len(log) : log[i] = LogRecord(level, fn)})

(* C1: a failure while fetching or parsing a feed never aborts aggregation:    *)
(* fetch_feed is called once for every configured feed, in config order, vea   *)
(* returns normally, and its result holds (by link) every matched entry of the *)
(* feeds that did not fail and nothing of a feed whose parse call raised.      *)
C1_FailureNeverAborts ==
    /\ calls = SubSeq(FeedOrder, 1, Len(calls))
    /\ (pc = "exited" /\ veaCalls = 1) => exportCalls = 1
    /\ VeaReturned =>
          /\ calls = FeedOrder
          /\ Len(returned) = Len(feeds)
          /\ \A i \in 1..Len(returned) :
                /\ returned[i].error \in {"none", "noentries"} =>
                      LinksOf(returned[i].entries) \subseteq LinksOf(result)
                /\ feeds[i].parse = "raise" =>
                      \A j \in 1..Len(result) : result[j].source # feeds[i].name

C1_Witness ==
    /\ pc = "exited"
    /\ exitCode = 0
    /\ Len(feeds) = 2
    /\ feeds[1].parse = "raise"
    /\ \E j \in 1..Len(result) : result[j].source = feeds[2].name

(* C2: at every point of vea's loop and in what it returns, no two elements of *)
(* the result share a link, and seen_links holds exactly the links appended.   *)
C2_NoSharedLink ==
    /\ DistinctLinks(all_matched_entries)
    /\ DistinctLinks(result)
    /\ veaCalls = 1 => seen_links = LinksOf(all_matched_entries)

C2_Witness ==
    /\ pc = "export"
    /\ Len(result) = 1
    /\ \E i \in 1..Len(returned) :
          /\ Len(returned[i].entries) = 2
          /\ returned[i].entries[1].link = returned[i].entries[2].link

(* C3: what vea returns is the concatenation, in config feed order and each    *)
(* feed's entry order, of what fetch_feed returned for every feed, without the *)
(* entries whose link occurred earlier; each carries its own feed's name.      *)
C3_FirstOccurrenceInOrder ==
    /\ \A i \in 1..Len(returned) : \A j \in 1..Len(returned[i].entries) :
          returned[i].entries[j].source = feeds[i].name
    /\ VeaReturned => result = FirstByLink(Flatten(returned))

C3_Witness ==
    /\ pc = "exited"
    /\ Len(returned) = 2
    /\ Len(returned[1].entries) = 2
    /\ Len(returned[2].entries) = 1
    /\ returned[2].entries[1].link = returned[1].entries[2].link
    /\ Len(result) = 2
    /\ result[2].source = feeds[1].name

(* C4: an entry whose title contains no configured keyword, ignoring letter    *)
(* case, is in neither fetch_feed's list nor vea's.                            *)
C4_NoKeywordNoEntry ==
    /\ \A k \in 1..Len(matched_entries_list) : TitleHasKeyword(matched_entries_list[k].title)
    /\ \A i \in 1..Len(returned) : \A j \in 1..Len(returned[i].entries) :
          TitleHasKeyword(returned[i].entries[j].title)
    /\ \A k \in 1..Len(all_matched_entries) : TitleHasKeyword(all_matched_entries[k].title)
    /\ \A k \in 1..Len(result) : TitleHasKeyword(result[k].title)

C4_Witness ==
    /\ pc = "exited"
    /\ exitCode = 0
    /\ Len(result) = 1
    /\ \E i \in 1..Len(feeds) : \E j \in 1..Len(feeds[i].entries) :
          /\ HasTitleAndLink(feeds[i].entries[j])
          /\ ~TitleHasKeyword(feeds[i].entries[j].title)
          /\ returned[i].error = "none"

(* C5: every entry with a title and a link whose title contains a configured   *)
(* keyword, ignoring the letter case of both, gets exactly one dict in         *)
(* fetch_feed's list.                                                          *)
C5_MatchIgnoresCaseOfBoth ==
    (pc = "dedup" /\ returned[fi].error = "none") =>
        \A j \in 1..Len(feeds[fi].entries) :
            (HasTitleAndLink(feeds[fi].entries[j])
                /\ TitleHasKeyword(feeds[fi].entries[j].title)) =>
            Cardinality({k \in 1..Len(matchedIdx) : matchedIdx[k] = j}) = 1

FirstChars(s, n) == [i \in 1..n |-> s[i]]

\* The raw summary is a text, given plainly or as the 'value' of a dict.
IsSummaryText(raw) == raw.t \in {"str", "dict"}

SummariesWithinLimit(list) ==
    \A k \in 1..Len(list) : list[k].summary.t = "str" => Len(list[k].summary.v) <= SummaryLimit

(* C6 as stated: for every matched entry, a summary text longer than 200       *)
(* characters is cut to its first 200, one of at most 200 is kept unchanged    *)
(* (plain or in a dict's text field), a missing or unusable summary is absent; *)
(* so no summary is longer than 200.                                           *)
C6_SummaryKeptOrTruncated ==
    /\ InFeed =>
          \A k \in 1..Len(matched_entries_list) :
              LET raw == RawOf(k).summary
                  out == matched_entries_list[k].summary
              IN  /\ IsSummaryText(raw) =>
                        IF Len(raw.v) > SummaryLimit
                            THEN out = Str(FirstChars(raw.v, SummaryLimit))
                        ELSE out = Str(raw.v)
                  /\ ~IsSummaryText(raw) => out = None
    /\ SummariesWithinLimit(matched_entries_list)
    /\ SummariesWithinLimit(result)

(* C6 amended: as C6, but an empty summary text (plain or in a dict's text     *)
(* field) yields an absent summary, as a missing one does; a non-empty text of *)
(* at most 200 characters is kept unchanged.                                   *)
C6_NonEmptySummaryKeptOrTruncated ==
    /\ InFeed =>
          \A k \in 1..Len(matched_entries_list) :
              LET raw == RawOf(k).summary
                  out == matched_entries_list[k].summary
              IN  /\ (IsSummaryText(raw) /\ Len(raw.v) > SummaryLimit) =>
                        out = Str(FirstChars(raw.v, SummaryLimit))
                  /\ (IsSummaryText(raw) /\ Len(raw.v) \in 1..SummaryLimit) =>
                        out = Str(raw.v)
                  /\ (IsSummaryText(raw) /\ Len(raw.v) = 0) => out = None
                  /\ ~IsSummaryText(raw) => out = None
    /\ SummariesWithinLimit(matched_entries_list)
    /\ SummariesWithinLimit(result)

C6_Witness ==
    /\ pc = "exited"
    /\ Len(result) >= 1
    /\ feeds[1].entries[1].summary.t = "dict"
    /\ Len(feeds[1].entries[1].summary.v) > SummaryLimit
    /\ result[1].summary.t = "str"
    /\ Len(result[1].summary.v) = SummaryLimit

(* C7: whenever an exception is raised inside fetch_feed, at the parse call or *)
(* while processing any entry, fetch_feed returns an empty list for that feed  *)
(* and logs an error; a parse with no usable entry list returns an empty list. *)
C7_FailedFeedReturnsEmpty ==
    /\ \A i \in 1..Len(returned) :
          returned[i].error \in {"parse", "entry", "noentries"} =>
              returned[i].entries = <<>>
    /\ CountLog("ERROR", "fetch_feed") =
          Cardinality({i \in 1..Len(returned) : returned[i].error \in {"parse", "entry"}})

(* C8: an I/O failure during export_data, creating the output directory or     *)
(* writing the file, is logged and not fatal: the run reaches its last log     *)
(* line and exits with code 0.                                                 *)
C8_ExportFailureNotFatal ==
    exportOutcome \in {"makedirs_failed", "write_failed"} =>
        /\ CountLog("ERROR", "export_data") = 1
        /\ pc \in {"finish", "exited"}
        /\ pc = "exited" =>
              /\ exitCode = 0
              /\ log[Len(log)] = LogRecord("INFO", "main")

(* C9: a configuration that fails to load or parse ends the run with exit code *)
(* 1 and neither vea nor export_data called; otherwise vea is called once,     *)
(* then export_data once after vea returned, and the exit code is 0.           *)
C9_RunOrderAndExitCode ==
    /\ veaCalls <= 1
    /\ exportCalls <= veaCalls
    /\ exportCalls = 1 => pc \in {"finish", "exited"}
    /\ pc = "exited" =>
          IF configFile # "ok"
              THEN exitCode = 1 /\ veaCalls = 0 /\ exportCalls = 0
          ELSE exitCode = 0 /\ veaCalls = 1 /\ exportCalls = 1

\* The days of each month of a common year.
MonthDays == <<31, 28, 31, 30, 31, 30, 31, 31, 30, 31, 30, 31>>

Field(v, i) == IF i <= Len(v) THEN v[i] ELSE 0

\* The first six fields of v are a date and a time of the calendar.
IsCalendarTime(v) ==
    /\ Len(v) >= 3
    /\ v[1] \in 1..9999
    /\ v[2] \in 1..12
    /\ v[3] >= 1
    /\ v[3] <= MonthDays[v[2]]
                 + (IF v[2] = 2 /\ v[1] % 4 = 0 /\ (v[1] % 100 # 0 \/ v[1] % 400 = 0)
                        THEN 1 ELSE 0)
    /\ Field(v, 4) \in 0..23
    /\ Field(v, 5) \in 0..59
    /\ Field(v, 6) \in 0..59

IsDigit(c) == \E n \in 0..9 : Digits[n + 1] = c

DigitValue(c) == CHOOSE n \in 0..9 : Digits[n + 1] = c

\* The number the digits s[from..to] write.
RECURSIVE NumberAt(_, _, _)
NumberAt(s, from, to) ==
    IF from > to THEN 0
    ELSE 10 * NumberAt(s, from, to - 1) + DigitValue(s[to])

\* s is YYYY-MM-DDTHH:MM:SS and reads back as the fields of v.
IsIsoOf(s, v) ==
    /\ Len(s) = 19
    /\ s[5] = "-" /\ s[8] = "-" /\ s[11] = "T" /\ s[14] = ":" /\ s[17] = ":"
    /\ \A i \in (1..19) \ {5, 8, 11, 14, 17} : IsDigit(s[i])
    /\ NumberAt(s, 1, 4) = v[1]
    /\ NumberAt(s, 6, 7) = v[2]
    /\ NumberAt(s, 9, 10) = v[3]
    /\ NumberAt(s, 12, 13) = Field(v, 4)
    /\ NumberAt(s, 15, 16) = Field(v, 5)
    /\ NumberAt(s, 18, 19) = Field(v, 6)

\* Something other than a date makes fetch_feed's loop over `feed` raise.
RaisesOtherwise(feed) ==
    \/ \E i \in 1..Len(keywords) : keywords[i].t # "str"
    \/ \E j \in 1..Len(feed.entries) :
          \/ feed.entries[j].summary.t = "dict_num"
          \/ /\ Truthy(feed.entries[j].title)
             /\ Truthy(feed.entries[j].link)
             /\ feed.entries[j].title.t # "str"

\* A keyword, as configured, occurs in the lower-cased title.
MatchesLowered(t) ==
    \E i \in 1..Len(keywords) : IsSubstring(keywords[i].v, LowerStr(t.v))

\* No date makes fetch_feed drop an entry or stop before the entries after it.
NoEntryLostToDate ==
    (pc = "dedup" /\ feeds[fi].parse = "ok" /\ ~RaisesOtherwise(feeds[fi])) =>
        /\ returned[fi].error = "none"
        /\ \A j \in 1..Len(feeds[fi].entries) :
              (HasTitleAndLink(feeds[fi].entries[j])
                  /\ MatchesLowered(feeds[fi].entries[j].title)) =>
              \E k \in 1..Len(matchedIdx) : matchedIdx[k] = j

(* C10 as stated: a matched entry that carries a pre-parsed time tuple has the *)
(* ISO-8601 rendering of that tuple as published; when the conversion fails or *)
(* there is no tuple, published is absent; and no date makes fetch_feed drop   *)
(* the entry or the entries after it.                                          *)
C10_TupleGivesIso ==
    /\ InFeed =>
          \A k \in 1..Len(matched_entries_list) :
              LET pp == RawOf(k).published_parsed
                  out == matched_entries_list[k].published
              IN  IF pp.t = "tuple" /\ IsCalendarTime(pp.v)
                      THEN out.t = "str" /\ IsIsoOf(out.v, pp.v)
                  ELSE out = None
    /\ NoEntryLostToDate

(* C10 amended: a matched entry that has a non-empty published value and       *)
(* carries a pre-parsed time tuple has the ISO-8601 rendering of that tuple as *)
(* published; when published is missing or empty, the conversion fails or      *)
(* there is no tuple, published is absent; and no date makes fetch_feed drop   *)
(* the entry or the entries after it.                                          *)
C10_PublishedAndTupleGiveIso ==
    /\ InFeed =>
          \A k \in 1..Len(matched_entries_list) :
              LET pp == RawOf(k).published_parsed
                  out == matched_entries_list[k].published
              IN  IF Truthy(RawOf(k).published) /\ pp.t = "tuple" /\ IsCalendarTime(pp.v)
                      THEN out.t = "str" /\ IsIsoOf(out.v, pp.v)
                  ELSE out = None
    /\ NoEntryLostToDate

C10_Witness ==
    /\ pc = "dedup"
    /\ Len(matched_entries_list) = 2
    /\ matched_entries_list[1].published =
          Str(<<"2", "0", "2", "4", "-", "0", "2", "-", "2", "9", "T",
                "0", "7", ":", "0", "5", ":", "0", "9">>)

====
